---- MODULE Spec2Model ----
(***************************************************************************)
(* Intentive: the Express chat relay (server/app.js) and the UI helper     *)
(* callChatAPI (client/app.jsx).                                            *)
(*                                                                         *)
(* JavaScript values that may or may not be strings are records            *)
(* [t, s]: t is the typeof-like tag and s is what String(v) yields.        *)
(* Environment keys, roles and part texts that the code has already       *)
(* forced to be strings are plain TLA+ strings.                            *)
(***************************************************************************)
EXTENDS Integers, Sequences, FiniteSets, TLC

VARIABLES
    GOOGLE_API_KEY,   \* app.js:16, read once at start
    OPENAI_API_KEY,   \* app.js:17, read once at start
    spc,              \* position of the POST /api/chat handler
    sorigin,          \* who sent the request the handler serves: "ui" | "tool" | "-"
    sbody,            \* req.body of the request being served
    sroute,           \* the branch the handler took: "google" | "openai" | "none" | "-"
    sres,             \* the HTTP response the handler sent
    geminiCalls,      \* every fetch issued to the Gemini endpoint, in order
    openaiCalls,      \* every fetch issued to the OpenAI endpoint, in order
    gres,             \* what the Gemini endpoint answered
    ores,             \* what the OpenAI endpoint answered
    hres,             \* the response of GET /api/health
    cpc,              \* position of callChatAPI in the UI
    cargs,            \* the messages callChatAPI was called with
    cfetch,           \* what fetch('/api/chat') settled with in the UI
    cresult,          \* how callChatAPI completed
    appMessages,      \* App: the `messages` state, the conversation list as last committed
    mounted,          \* whether the App tree is still mounted
    input,            \* ChatComponent: the text field
    form,             \* IntentForm: action, fromToken, toToken, amount, preferences
    preview,          \* IntentForm: the generated intent shown under the form
    inflight,         \* the handleSend / handleSubmit calls awaiting callChatAPI
    nsends,           \* how many sends were accepted so far
    entryOf           \* history: for each entry of appMessages, the send it came from

\* the state of the UI components
uiVars == << appMessages, mounted, input, form, preview, inflight, nsends, entryOf >>

\* the state of the server and of the single callChatAPI call
serverVars == << GOOGLE_API_KEY, OPENAI_API_KEY, spc, sorigin, sbody, sroute, sres,
                 geminiCalls, openaiCalls, gres, ores, hres, cpc, cargs, cfetch, cresult >>

vars == << GOOGLE_API_KEY, OPENAI_API_KEY, spc, sorigin, sbody, sroute, sres,
           geminiCalls, openaiCalls, gres, ores, hres, cpc, cargs, cfetch, cresult,
           appMessages, mounted, input, form, preview, inflight, nsends, entryOf >>

---------------------------------------------------------------------------
(* Bounds of the model *)

\* longest `messages` array a request carries
MaxMsgs == 2
\* most candidates in a Gemini answer
MaxCandidates == 2
\* most parts in a Gemini candidate
MaxParts == 2
\* most sends (chat sends and form submissions together) the UI accepts
MaxSends == 2

---------------------------------------------------------------------------
(* JavaScript values *)

Str(s) == [t |-> "string", s |-> s]
JSNull == [t |-> "null", s |-> "null"]
Undefined == [t |-> "undefined", s |-> "undefined"]

\* ToBoolean on the values above
Truthy(v) == v.t = "string" /\ v.s # ""
\* a || b
OrElse(a, b) == IF Truthy(a) THEN a ELSE b
\* String(v)
JSString(v) == v.s
\* s.startsWith(p)
StartsWith(s, p) == Len(s) >= Len(p) /\ SubSeq(s, 1, Len(p)) = p

\* all sequences over S of length at most n
RECURSIVE SeqsUpTo(_, _)
SeqsUpTo(S, n) ==
    IF n = 0 THEN { <<>> }
    ELSE LET shorter == SeqsUpTo(S, n - 1)
         IN  shorter \cup { Append(q, x) : q \in { r \in shorter : Len(r) = n - 1 }, x \in S }

\* a { role, content } object, undefined, or null
Msg(role, content) == [t |-> "object", role |-> role, content |-> content]
NoMsg == [t |-> "undefined", role |-> "", content |-> Undefined]
NullMsg == [t |-> "null", role |-> "", content |-> Undefined]

---------------------------------------------------------------------------
(* Inputs *)

\* process.env.GOOGLE_API_KEY / OPENAI_API_KEY: unset, empty or set
GoogleEnv == { Undefined, Str(""), Str("AIzaSyDemo"), Str("g-key") }
OpenAIEnv == { Undefined, Str(""), Str("sk-demo") }

\* client/app.jsx: the message every UI request starts with
SYSTEM_MESSAGE ==
    Msg("system",
        Str("You help users express intent-centric goals for blockchain activity. Be concise and suggest how to structure their intent."))

\* elements of a `messages` array: ChatMessages, and two elements that are
\* none (a null content, and a JSON null in place of the object)
ChatMessages ==
    { SYSTEM_MESSAGE,
      Msg("user", Str("hi")),
      Msg("assistant", Str("ok")),
      Msg("user", Str("")) }
RequestMessages == ChatMessages \cup { Msg("assistant", JSNull), NullMsg }

\* the `messages` field of a body: an array, some other value, or missing
ArrayOf(q) == [t |-> "array", v |-> q]
NotAnArray == [t |-> "string", v |-> <<>>]
MissingField == [t |-> "undefined", v |-> <<>>]

MessagesValues ==
    { ArrayOf(q) : q \in SeqsUpTo(RequestMessages, MaxMsgs) } \cup { NotAnArray, MissingField }

\* req.body after express.json(): an object, or undefined when no JSON body was sent
Bodies ==
    { [present |-> TRUE, messages |-> m] : m \in MessagesValues }
        \cup { [present |-> FALSE, messages |-> MissingField] }

---------------------------------------------------------------------------
(* Upstream answers *)

\* a fetch that settled: rejected (network), or a response with a status and
\* a body that res.json() parses ("ok"), parses to null ("null") or rejects
\* ("invalid")
Rejected(nodata) == [net |-> "reject", status |-> 0, json |-> "invalid", data |-> nodata]
Answered(status, json, data) == [net |-> "response", status |-> status, json |-> json, data |-> data]
NotAsked(nodata) == [net |-> "none", status |-> 0, json |-> "invalid", data |-> nodata]
\* Response.ok
ResOk(res) == res.net = "response" /\ res.status >= 200 /\ res.status <= 299

\* Gemini generateContent answers: { candidates: [ { content: { parts: [ { text } ] } } ] }
PartTexts == { Str("foo"), Str("bar"), Str(""), Undefined }
PartsValues(np) ==
    { [t |-> "array", v |-> q] : q \in SeqsUpTo([text : PartTexts], np) }
        \cup { [t |-> "undefined", v |-> <<>>], [t |-> "string", v |-> <<>>] }
Candidates(np) ==
    { [content |-> "object", parts |-> p] : p \in PartsValues(np) }
        \cup { [content |-> "undefined", parts |-> [t |-> "undefined", v |-> <<>>]] }
GeminiNull == [t |-> "null", candidates |-> [t |-> "undefined", v |-> <<>>]]
\* candidates after the first one
LaterCandidates ==
    { [content |-> "object", parts |-> [t |-> "array", v |-> << [text |-> Str("bar")] >>]],
      [content |-> "undefined", parts |-> [t |-> "undefined", v |-> <<>>]] }
GeminiDataUpTo(nc, np) ==
    { [t |-> "object", candidates |-> [t |-> "array", v |-> << c >> \o rest]] :
        c \in Candidates(np), rest \in SeqsUpTo(LaterCandidates, nc - 1) }
        \cup { [t |-> "object", candidates |-> [t |-> "array", v |-> <<>>]],
               [t |-> "object", candidates |-> [t |-> "undefined", v |-> <<>>]],
               GeminiNull }
GeminiAnswers(nc, np) ==
    { Rejected(GeminiNull), Answered(500, "invalid", GeminiNull), Answered(429, "ok", GeminiNull),
      Answered(200, "invalid", GeminiNull) }
        \cup { Answered(200, "ok", d) : d \in GeminiDataUpTo(nc, np) }

\* the answers the whole-system specification draws from, and those the
\* adapter's own specification draws from
StubbedGeminiAnswers == GeminiAnswers(1, 1)
AllGeminiAnswers == GeminiAnswers(MaxCandidates, MaxParts)

\* OpenAI chat/completions answers: { choices: [ { message: { role, content } } ] }
OpenAINull == [t |-> "null", choices |-> [t |-> "undefined", v |-> <<>>]]
OpenAIChoices ==
    { << >>,
      << [message |-> NoMsg] >>,
      << [message |-> Msg("assistant", Str("sure"))] >>,
      << [message |-> Msg("assistant", JSNull)] >>,
      << [message |-> Msg("assistant", Str("first"))], [message |-> Msg("assistant", Str("second"))] >> }
OpenAIData ==
    { [t |-> "object", choices |-> [t |-> "array", v |-> q]] : q \in OpenAIChoices }
        \cup { [t |-> "object", choices |-> [t |-> "undefined", v |-> <<>>]], OpenAINull }
OpenAIAnswers ==
    { Rejected(OpenAINull), Answered(500, "invalid", OpenAINull), Answered(401, "ok", OpenAINull),
      Answered(200, "invalid", OpenAINull) }
        \cup { Answered(200, "ok", d) : d \in OpenAIData }

---------------------------------------------------------------------------
(* Provider adapters (app.js) *)

\* how an async function settles
Return(v) == [threw |-> FALSE, error |-> "", value |-> v]
Throw(e) == [threw |-> TRUE, error |-> e, value |-> NoMsg]

\* m.role === 'assistant' ? 'model' : 'user'
GeminiRoleKeepSystem(role) == IF role = "assistant" THEN "model" ELSE role
GeminiRole(role) == IF role = "assistant" THEN "model" ELSE "user"

\* m.role and m.content throw a TypeError when m is null
ThrowsOnRead(messages) == \E i \in 1..Len(messages) : messages[i].t = "null"

\* messages.map((m) => ({ role, parts: [{ text: String(m.content || '') }] }))
GeminiContents(messages) ==
    [ i \in 1..Len(messages) |->
        [ role |-> GeminiRole(messages[i].role),
          parts |-> << [text |-> JSString(OrElse(messages[i].content, Str("")))] >> ] ]

\* the fetch callGemini issues: the key in the URL, { contents } as the body
GeminiFetchPerMessage(key, messages) ==
    [ i \in 1..Len(messages) |-> [key |-> key, contents |-> GeminiContents(<< messages[i] >>)] ]
GeminiFetch(key, messages) == << [key |-> key, contents |-> GeminiContents(messages)] >>

\* Array.prototype.join(''): undefined and null elements count as ''
RECURSIVE Join(_)
Join(xs) ==
    IF Len(xs) = 0 THEN ""
    ELSE (IF xs[1].t \in {"undefined", "null"} THEN "" ELSE JSString(xs[1])) \o Join(Tail(xs))

\* data?.candidates?.[0]?.content?.parts?.map((p) => p.text).join('')
GeminiChain(data) ==
    IF data.t = "null" \/ data.candidates.t = "undefined" \/ Len(data.candidates.v) = 0
    THEN [threw |-> FALSE, value |-> Undefined]
    ELSE LET c == data.candidates.v[1]
         IN  IF c.content = "undefined" \/ c.parts.t = "undefined"
             THEN [threw |-> FALSE, value |-> Undefined]
             ELSE IF c.parts.t # "array"
             THEN [threw |-> TRUE, value |-> Undefined]
             ELSE [threw |-> FALSE,
                   value |-> Str(Join([ i \in 1..Len(c.parts.v) |-> c.parts.v[i].text ]))]

\* const text = <chain> || '(no content)'; return { role: 'assistant', content: text }
GeminiReplyLastCandidate(data) ==
    LET n == Len(data.candidates.v)
        last == [data EXCEPT !.candidates.v = IF n = 0 THEN << >> ELSE << data.candidates.v[n] >>]
        chain == GeminiChain(last)
    IN  IF chain.threw THEN Throw("parts.map is not a function")
        ELSE Return(Msg("assistant", OrElse(chain.value, Str("(no content)"))))
GeminiReply(data) ==
    LET chain == GeminiChain(data)
    IN  IF chain.threw THEN Throw("parts.map is not a function")
        ELSE Return(Msg("assistant", OrElse(chain.value, Str("(no content)"))))

\* callGemini after its fetch settled
callGemini(res) ==
    IF res.net = "reject" THEN Throw("fetch failed")
    ELSE IF ~ResOk(res) THEN Throw("Gemini HTTP " \o ToString(res.status))
    ELSE IF res.json = "invalid" THEN Throw("Unexpected token in JSON")
    ELSE GeminiReply(res.data)

\* the fetch callOpenAI issues: the key as bearer token, the messages verbatim
OpenAIFetch(key, messages) ==
    << [key |-> key, model |-> "gpt-3.5-turbo", messages |-> messages,
        temperature |-> "0.2", max_tokens |-> 300] >>

\* callOpenAI after its fetch settled: data.choices[0].message
callOpenAI(res) ==
    IF res.net = "reject" THEN Throw("fetch failed")
    ELSE IF ~ResOk(res) THEN Throw("OpenAI HTTP " \o ToString(res.status))
    ELSE IF res.json = "invalid" THEN Throw("Unexpected token in JSON")
    ELSE IF res.data.t = "null" \/ res.data.choices.t = "undefined" \/ Len(res.data.choices.v) = 0
    THEN Throw("Cannot read properties of undefined")
    ELSE Return(res.data.choices.v[1].message)

---------------------------------------------------------------------------
(* Routes (app.js) *)

NoResponse == [status |-> 0, error |-> "", message |-> NoMsg, provider |-> ""]
\* res.status(400).json({ error: ... })
BadRequestResponse ==
    [status |-> 400, error |-> "Body must include messages: []", message |-> NoMsg, provider |-> ""]
\* res.json({ message: reply, provider })
OkResponse(reply, provider) == [status |-> 200, error |-> "", message |-> reply, provider |-> provider]
\* the fallback when no key is configured
FallbackAsError ==
    [status |-> 503, error |-> "No AI provider configured.", message |-> NoMsg, provider |-> "none"]
FallbackResponse ==
    OkResponse(
        Msg("assistant",
            Str("No AI provider configured. Set GOOGLE_API_KEY (Gemini) or OPENAI_API_KEY on the server.")),
        "none")
\* the catch block: res.status(500).json({ error: ... })
CatchAsFallback == FallbackResponse
CatchResponse ==
    [status |-> 500, error |-> "Failed to process chat request.", message |-> NoMsg, provider |-> ""]

\* const { messages } = req.body || {}
ReqMessages(body) == IF body.present THEN body.messages ELSE MissingField
\* Array.isArray(messages)
IsTruthyValue(m) == m.t # "undefined"
IsArray(m) == m.t = "array"

\* the provider GET /api/health reports
HealthProviderOpenAIFirst(g, o) == IF o # "" THEN "openai" ELSE IF g # "" THEN "google" ELSE "none"
HealthProvider(g, o) == IF g # "" THEN "google" ELSE IF o # "" THEN "openai" ELSE "none"

\* the branch POST /api/chat takes
ChatProviderByPrefix(g, o) ==
    IF StartsWith(g, "AIza") THEN "google" ELSE IF o # "" THEN "openai" ELSE "none"
ChatProvider(g, o) ==
    IF g # "" \/ StartsWith(g, "AIza") THEN "google" ELSE IF o # "" THEN "openai" ELSE "none"

\* app.get('/api/health')
Health ==
    /\ hres' = [ok |-> TRUE, provider |-> HealthProvider(GOOGLE_API_KEY, OPENAI_API_KEY)]
    /\ UNCHANGED << GOOGLE_API_KEY, OPENAI_API_KEY, spc, sorigin, sbody, sroute, sres, geminiCalls,
                    openaiCalls, gres, ores, cpc, cargs, cfetch, cresult >>
    /\ UNCHANGED uiVars

\* app.post('/api/chat'), from the request to its first await or its response
ChatHandle(body, origin) ==
    /\ spc = "idle"
    /\ sbody' = body
    /\ sorigin' = origin
    /\ LET messages == ReqMessages(body)
           provider == ChatProvider(GOOGLE_API_KEY, OPENAI_API_KEY)
       IN  IF ~IsArray(messages)
           THEN /\ spc' = "responded"
                /\ sroute' = "-"
                /\ sres' = BadRequestResponse
                /\ UNCHANGED << geminiCalls, openaiCalls >>
           ELSE IF provider = "google" /\ ThrowsOnRead(messages.v)
           THEN /\ spc' = "responded"
                /\ sroute' = "google"
                /\ sres' = CatchResponse
                /\ UNCHANGED << geminiCalls, openaiCalls >>
           ELSE IF provider = "google"
           THEN /\ spc' = "awaitGemini"
                /\ sroute' = "google"
                /\ geminiCalls' = geminiCalls \o GeminiFetch(GOOGLE_API_KEY, messages.v)
                /\ UNCHANGED << sres, openaiCalls >>
           ELSE IF provider = "openai"
           THEN /\ spc' = "awaitOpenAI"
                /\ sroute' = "openai"
                /\ openaiCalls' = openaiCalls \o OpenAIFetch(OPENAI_API_KEY, messages.v)
                /\ UNCHANGED << sres, geminiCalls >>
           ELSE /\ spc' = "responded"
                /\ sroute' = "none"
                /\ sres' = FallbackResponse
                /\ UNCHANGED << geminiCalls, openaiCalls >>
    /\ UNCHANGED << GOOGLE_API_KEY, OPENAI_API_KEY, gres, ores, hres >>
    /\ UNCHANGED uiVars

\* a request sent to POST /api/chat by some other tool or script
ToolRequest(bodies) ==
    /\ cpc = "idle"
    /\ \E body \in bodies : ChatHandle(body, "tool")
    /\ UNCHANGED << cpc, cargs, cfetch, cresult >>

\* the Gemini fetch settles: callGemini resumes, then the handler responds
GeminiResponds(answers) ==
    /\ spc = "awaitGemini"
    /\ \E res \in answers :
         /\ gres' = res
         /\ LET reply == callGemini(res)
            IN  sres' = IF reply.threw THEN CatchResponse ELSE OkResponse(reply.value, "google")
    /\ spc' = "responded"
    /\ UNCHANGED << GOOGLE_API_KEY, OPENAI_API_KEY, sorigin, sbody, sroute, geminiCalls, openaiCalls,
                    ores, hres, cpc, cargs, cfetch, cresult >>
    /\ UNCHANGED uiVars

\* the OpenAI fetch settles: callOpenAI resumes, then the handler responds
OpenAIResponds ==
    /\ spc = "awaitOpenAI"
    /\ \E res \in OpenAIAnswers :
         /\ ores' = res
         /\ LET reply == callOpenAI(res)
            IN  sres' = IF reply.threw THEN CatchResponse ELSE OkResponse(reply.value, "openai")
    /\ spc' = "responded"
    /\ UNCHANGED << GOOGLE_API_KEY, OPENAI_API_KEY, sorigin, sbody, sroute, geminiCalls, openaiCalls,
                    gres, hres, cpc, cargs, cfetch, cresult >>
    /\ UNCHANGED uiVars

---------------------------------------------------------------------------
(* The UI helper (client/app.jsx) *)

\* the message lists the UI components pass: [SYSTEM_MESSAGE, ...]
UIRequests ==
    { << SYSTEM_MESSAGE >> \o q :
        q \in SeqsUpTo({ Msg("user", Str("hi")), Msg("assistant", Str("ok")) }, MaxMsgs - 1) }

NoResult == [raised |-> FALSE, error |-> "", value |-> NoMsg]

\* callChatAPI once fetch('/api/chat') has settled
callChatAPIStatusUncaught(settled) ==
    IF settled.net = "response" /\ ~ResOk(settled)
    THEN [raised |-> TRUE, error |-> "HTTP " \o ToString(settled.status), value |-> NoMsg]
    ELSE IF settled.net = "reject"
    THEN [raised |-> FALSE, error |-> "",
          value |-> Msg("assistant", Str("Error: " \o "Failed to fetch"))]
    ELSE IF settled.json = "invalid"
    THEN [raised |-> FALSE, error |-> "",
          value |-> Msg("assistant", Str("Error: " \o "Unexpected token < in JSON at position 0"))]
    ELSE IF settled.json = "null"
    THEN [raised |-> FALSE, error |-> "",
          value |-> Msg("assistant", Str("Error: " \o "Cannot read properties of null (reading 'message')"))]
    ELSE [raised |-> FALSE, error |-> "", value |-> settled.data.message]
callChatAPI(settled) ==
    LET try == IF settled.net = "reject" THEN Throw("Failed to fetch")
               ELSE IF ~ResOk(settled) THEN Throw("HTTP " \o ToString(settled.status))
               ELSE IF settled.json = "invalid" THEN Throw("Unexpected token < in JSON at position 0")
               ELSE IF settled.json = "null" THEN Throw("Cannot read properties of null (reading 'message')")
               ELSE Return(settled.data.message)
    IN  IF try.threw
        THEN [raised |-> FALSE, error |-> "",
              value |-> Msg("assistant", Str("Error: " \o try.error))]
        ELSE [raised |-> FALSE, error |-> "", value |-> try.value]

\* callChatAPI(messages) up to its await of fetch
UICall ==
    /\ cpc = "idle"
    /\ spc = "idle"
    /\ \E messages \in UIRequests : cargs' = messages
    /\ cpc' = "fetching"
    /\ UNCHANGED << GOOGLE_API_KEY, OPENAI_API_KEY, spc, sorigin, sbody, sroute, sres, geminiCalls,
                    openaiCalls, gres, ores, hres, cfetch, cresult >>
    /\ UNCHANGED uiVars

\* the UI's request, JSON.stringify({ messages }), reaches the server
UIRequestArrives ==
    /\ cpc = "fetching"
    /\ ChatHandle([present |-> TRUE, messages |-> ArrayOf(cargs)], "ui")
    /\ UNCHANGED << cpc, cargs, cfetch, cresult >>

\* the server's response reaches the UI (a gateway may replace its body)
FetchResolves ==
    /\ cpc = "fetching"
    /\ sorigin = "ui"
    /\ spc = "responded"
    /\ \E json \in {"ok", "invalid", "null"} :
         /\ cfetch' = Answered(sres.status, json, sres)
         /\ cresult' = callChatAPI(Answered(sres.status, json, sres))
    /\ cpc' = "done"
    /\ UNCHANGED << GOOGLE_API_KEY, OPENAI_API_KEY, spc, sorigin, sbody, sroute, sres, geminiCalls,
                    openaiCalls, gres, ores, hres, cargs >>
    /\ UNCHANGED uiVars

\* the UI's fetch is rejected (the network failed)
FetchRejects ==
    /\ cpc = "fetching"
    /\ cfetch' = Rejected(NoResponse)
    /\ cresult' = callChatAPI(Rejected(NoResponse))
    /\ cpc' = "done"
    /\ UNCHANGED << GOOGLE_API_KEY, OPENAI_API_KEY, spc, sorigin, sbody, sroute, sres, geminiCalls,
                    openaiCalls, gres, ores, hres, cargs >>
    /\ UNCHANGED uiVars

---------------------------------------------------------------------------
(* The UI components (client/app.jsx) *)

\* String.prototype.trim on texts whose only white space is the blank
RECURSIVE TrimStart(_)
TrimStart(s) ==
    IF Len(s) > 0 /\ SubSeq(s, 1, 1) = " " THEN TrimStart(SubSeq(s, 2, Len(s))) ELSE s
RECURSIVE TrimEnd(_)
TrimEnd(s) ==
    IF Len(s) > 0 /\ SubSeq(s, Len(s), Len(s)) = " "
    THEN TrimEnd(SubSeq(s, 1, Len(s) - 1)) ELSE s
Trim(s) == TrimEnd(TrimStart(s))

\* what the user may type into the chat field
InputTexts == { "", "  ", " swap 1 ETH " }

\* the form as first rendered, and what the user may have filled in
EmptyForm ==
    [action |-> "swap", fromToken |-> "", toToken |-> "", amount |-> "", preferences |-> ""]
FormValues ==
    { EmptyForm,
      [action |-> "swap", fromToken |-> "USDC", toToken |-> "", amount |-> "2", preferences |-> ""],
      [action |-> "swap", fromToken |-> "USDC", toToken |-> "ETH", amount |-> "1.50",
       preferences |-> ""],
      [action |-> "stake", fromToken |-> "USDC", toToken |-> "ETH", amount |-> "2",
       preferences |-> "deadline 1h"] }

\* JSON.stringify(parseFloat(amount)) on the amounts above
AmountJSON(amount) == IF amount = "1.50" THEN "1.5" ELSE amount

\* JSON.stringify(intent): preferences: undefined is left out
IntentJSON(f) ==
    "{\"action\":\"" \o f.action \o "\",\"fromToken\":\"" \o f.fromToken
        \o "\",\"toToken\":\"" \o f.toToken \o "\",\"amount\":" \o AmountJSON(f.amount)
        \o (IF f.preferences # "" THEN ",\"preferences\":\"" \o f.preferences \o "\"" ELSE "")
        \o "}"

\* JSON.stringify(intent, null, 2)
IntentPretty(f) ==
    "{\n  \"action\": \"" \o f.action \o "\",\n  \"fromToken\": \"" \o f.fromToken
        \o "\",\n  \"toToken\": \"" \o f.toToken \o "\",\n  \"amount\": " \o AmountJSON(f.amount)
        \o (IF f.preferences # "" THEN ",\n  \"preferences\": \"" \o f.preferences \o "\"" ELSE "")
        \o "\n}"

\* how fetch('/api/chat') may settle for a request of the UI: rejected, or
\* answered by the handler's catch block, its fallback, or a reply of callOpenAI
UISettlements ==
    { Rejected(NoResponse), Answered(500, "ok", CatchResponse), Answered(200, "ok", FallbackResponse) }
        \cup { Answered(200, "ok", OkResponse(callOpenAI(a).value, "openai")) :
                 a \in { x \in OpenAIAnswers : ~callOpenAI(x).threw } }

\* setMessages((prev) => [...prev, msg])
appendMessage(prev, msg) == Append(prev, msg)

\* ChatComponent's render reads msg.role of every entry after the first: a
\* TypeError when the entry is undefined or null
RenderThrows(list) == \E i \in 2..Len(list) : list[i].t # "object"

\* ChatComponent: the user types
TypeInput ==
    /\ mounted
    /\ \E text \in InputTexts : input' = text
    /\ UNCHANGED << appMessages, mounted, form, preview, inflight, nsends, entryOf >>
    /\ UNCHANGED serverVars

\* IntentForm: the user fills in the fields
EditForm ==
    /\ mounted
    /\ \E f \in FormValues : form' = f
    /\ UNCHANGED << appMessages, mounted, input, preview, inflight, nsends, entryOf >>
    /\ UNCHANGED serverVars

\* ChatComponent.handleSend up to its await
handleSend ==
    /\ mounted
    /\ nsends < MaxSends
    /\ LET text == Trim(input)
           userMsg == Msg("user", Str(text))
       IN  IF text = ""
           THEN UNCHANGED << appMessages, input, inflight, nsends, entryOf >>
           ELSE /\ input' = ""
                /\ appMessages' = appendMessage(appMessages, userMsg)
                /\ entryOf' = Append(entryOf, [id |-> nsends + 1, part |-> "user"])
                /\ nsends' = nsends + 1
                /\ inflight' = inflight \cup
                       { [ id |-> nsends + 1, kind |-> "chat",
                           request |-> << SYSTEM_MESSAGE >> \o Tail(appMessages) \o << userMsg >> ] }
    /\ UNCHANGED << mounted, form, preview >>
    /\ UNCHANGED serverVars

\* IntentForm.handleSubmit up to its await
handleSubmit ==
    /\ mounted
    /\ nsends < MaxSends
    /\ IF form.fromToken = "" \/ form.toToken = "" \/ form.amount = ""
       THEN UNCHANGED << appMessages, preview, inflight, nsends, entryOf >>
       ELSE LET userMsg == Msg("user", Str("Structured intent: " \o IntentJSON(form)))
            IN  /\ preview' = IntentPretty(form)
                /\ appMessages' = appendMessage(appMessages, userMsg)
                /\ entryOf' = Append(entryOf, [id |-> nsends + 1, part |-> "user"])
                /\ nsends' = nsends + 1
                /\ inflight' = inflight \cup
                       { [ id |-> nsends + 1, kind |-> "form",
                           request |-> << SYSTEM_MESSAGE, userMsg >> ] }
    /\ UNCHANGED << mounted, input, form >>
    /\ UNCHANGED serverVars

\* callChatAPI settles and the handler resumes: appendMessage(reply), and
\* setPreferences('') in handleSubmit; the updates are committed by a render,
\* and a render that throws unmounts the tree, after which updates are dropped
ReplyArrives ==
    /\ \E call \in inflight, settled \in UISettlements :
         LET r == callChatAPI(settled)
             list == appendMessage(appMessages, r.value)
         IN  /\ inflight' = inflight \ { call }
             /\ IF ~mounted \/ r.raised
                THEN UNCHANGED << appMessages, entryOf, mounted, form >>
                ELSE IF RenderThrows(list)
                THEN /\ mounted' = FALSE
                     /\ UNCHANGED << appMessages, entryOf, form >>
                ELSE /\ appMessages' = list
                     /\ entryOf' = Append(entryOf, [id |-> call.id, part |-> "reply"])
                     /\ form' = IF call.kind = "form" THEN [form EXCEPT !.preferences = ""] ELSE form
                     /\ UNCHANGED mounted
    /\ UNCHANGED << input, preview, nsends >>
    /\ UNCHANGED serverVars

\* App as first rendered
InitUI ==
    /\ appMessages = << SYSTEM_MESSAGE >>
    /\ mounted = TRUE
    /\ input = ""
    /\ form = EmptyForm
    /\ preview = ""
    /\ inflight = { }
    /\ nsends = 0
    /\ entryOf = << [id |-> 0, part |-> "system"] >>

---------------------------------------------------------------------------
(* Specifications *)

\* the process after start: keys read from the environment, nothing served yet
InitWith(genv, oenv) ==
    /\ \E g \in genv : GOOGLE_API_KEY = JSString(OrElse(g, Str("")))
    /\ \E o \in oenv : OPENAI_API_KEY = JSString(OrElse(o, Str("")))
    /\ spc = "idle"
    /\ sorigin = "-"
    /\ sbody = [present |-> FALSE, messages |-> MissingField]
    /\ sroute = "-"
    /\ sres = NoResponse
    /\ geminiCalls = << >>
    /\ openaiCalls = << >>
    /\ gres = NotAsked(GeminiNull)
    /\ ores = NotAsked(OpenAINull)
    /\ hres = [ok |-> FALSE, provider |-> ""]
    /\ cpc = "idle"
    /\ cargs = << >>
    /\ cfetch = NotAsked(NoResponse)
    /\ cresult = NoResult
    /\ InitUI

Init == InitWith(GoogleEnv, OpenAIEnv)

Next ==
    \/ Health
    \/ ToolRequest(Bodies)
    \/ GeminiResponds(StubbedGeminiAnswers)
    \/ OpenAIResponds
    \/ UICall
    \/ UIRequestArrives
    \/ FetchResolves
    \/ FetchRejects

Spec == Init /\ [][Next]_vars

\* The Gemini adapter alone: one request, every shape of answer within the bounds
OneRequest == { [present |-> TRUE, messages |-> ArrayOf(<< SYSTEM_MESSAGE >>)] }
InitGemini == InitWith({ Str("AIzaSyDemo") }, OpenAIEnv)

NextGemini ==
    \/ ToolRequest(OneRequest)
    \/ GeminiResponds(AllGeminiAnswers)

SpecGemini == InitGemini /\ [][NextGemini]_vars

\* The UI components: sends, submissions and replies in any interleaving
InitApp == InitWith({ Undefined }, { Str("sk-demo") })

NextUI ==
    \/ TypeInput
    \/ EditForm
    \/ handleSend
    \/ handleSubmit
    \/ ReplyArrives

SpecUI == InitApp /\ [][NextUI]_vars

---------------------------------------------------------------------------
(* Properties *)

\* the request being served carries an array `messages`
ArrayRequest == spc # "idle" /\ sbody.present /\ sbody.messages.t = "array"
\* the three-way classification by the presence of the two keys
ByPresence(googlePresent, openaiPresent) ==
    IF googlePresent THEN "google" ELSE IF openaiPresent THEN "openai" ELSE "none"
Classified == ByPresence(GOOGLE_API_KEY # "", OPENAI_API_KEY # "")
UpstreamCalls == Len(geminiCalls) + Len(openaiCalls)
FallbackContent ==
    "No AI provider configured. Set GOOGLE_API_KEY (Gemini) or OPENAI_API_KEY on the server."

\* C1: for an array `messages`, the branch taken is the one the presence of
\* the two keys alone determines: google when the Google key is non-empty,
\* openai when only the OpenAI key is non-empty, none when both are empty; only
\* that provider's endpoint is called and a 200 answer carries its tag.
C1_RouterSelection ==
    ArrayRequest =>
        /\ sroute \in {"google", "openai", "none"}
        /\ sroute = Classified
        /\ Len(geminiCalls) > 0 => Classified = "google"
        /\ Len(openaiCalls) > 0 => Classified = "openai"
        /\ (spc = "responded" /\ sres.provider = "none") <=> (Classified = "none")
        /\ (spc = "responded" /\ sres.status = 200) => sres.provider = Classified
        /\ (spc = "awaitGemini") => Classified = "google"
        /\ (spc = "awaitOpenAI") => Classified = "openai"

\* both keys set, the Google key without the AIza prefix: Gemini was chosen
C1_Witness ==
    /\ GOOGLE_API_KEY = "g-key"
    /\ OPENAI_API_KEY = "sk-demo"
    /\ spc = "awaitGemini"
    /\ Len(geminiCalls) = 1

\* the upstream fetch was rejected, answered a non-success status, or its body
\* could not be parsed or read
Failed(res) ==
    \/ res.net = "reject"
    \/ res.net = "response" /\ (res.status < 200 \/ res.status > 299 \/ res.json = "invalid")
GeminiUnreadable ==
    /\ gres.net = "response" /\ gres.json = "ok" /\ gres.data.t = "object"
    /\ gres.data.candidates.t = "array" /\ Len(gres.data.candidates.v) > 0
    /\ gres.data.candidates.v[1].content = "object"
    /\ gres.data.candidates.v[1].parts.t = "string"
OpenAIUnreadable ==
    /\ ores.net = "response" /\ ores.json = "ok"
    /\ \/ ores.data.t = "null"
       \/ ores.data.choices.t = "undefined"
       \/ Len(ores.data.choices.v) = 0
\* callGemini threw on a null element before its fetch
TranslationThrew ==
    /\ ArrayRequest /\ GOOGLE_API_KEY # ""
    /\ \E i \in 1..Len(sbody.messages.v) : sbody.messages.v[i] = NullMsg
AdapterFailed ==
    Failed(gres) \/ Failed(ores) \/ GeminiUnreadable \/ OpenAIUnreadable \/ TranslationThrew

\* C2: when the selected adapter fails, the answer is 500 with the generic
\* error body, never the "none" fallback, and a failed Gemini call is not
\* followed by an OpenAI call.
C2_AdapterFailureIs500 ==
    (spc = "responded" /\ AdapterFailed) =>
        /\ sres.status = 500
        /\ sres.error = "Failed to process chat request."
        /\ sres.message = NoMsg
        /\ sres.provider # "none"
        /\ Len(openaiCalls) = 0 \/ Len(geminiCalls) = 0

\* Gemini answered HTTP 500 while the OpenAI key is set too
C2_Witness ==
    /\ spc = "responded"
    /\ gres.net = "response" /\ gres.status = 500
    /\ OPENAI_API_KEY # ""
    /\ sres.status = 500

\* C3: a body without an array `messages` is answered 400 with an error body,
\* whatever keys are set, and no upstream call is made.
C3_NonArrayIs400 ==
    (spc # "idle" /\ ~(sbody.present /\ sbody.messages.t = "array")) =>
        /\ spc = "responded"
        /\ sres.status = 400
        /\ sres.error # ""
        /\ sres.message = NoMsg
        /\ UpstreamCalls = 0

\* { messages: "not-an-array" } with both keys set
C3_Witness ==
    /\ spc = "responded"
    /\ sbody.present /\ sbody.messages = NotAnArray
    /\ GOOGLE_API_KEY # "" /\ OPENAI_API_KEY # ""
    /\ sres.status = 400

\* C4: with neither key set every array `messages` is answered 200, provider
\* "none", with the one fixed assistant message, and no upstream call is made.
C4_NoProviderFallback ==
    (ArrayRequest /\ GOOGLE_API_KEY = "" /\ OPENAI_API_KEY = "") =>
        /\ spc = "responded"
        /\ sres.status = 200
        /\ sres.provider = "none"
        /\ sres.message = Msg("assistant", Str(FallbackContent))
        /\ UpstreamCalls = 0

\* the empty array with no key set
C4_Witness ==
    /\ GOOGLE_API_KEY = "" /\ OPENAI_API_KEY = ""
    /\ spc = "responded"
    /\ sbody.present /\ sbody.messages = ArrayOf(<< >>)
    /\ sres.provider = "none"

\* C5: the message of every 200 answer, and every message callChatAPI
\* returns, has a content that is a string.
C5_ContentIsString ==
    /\ (spc = "responded" /\ sres.status = 200) =>
           sres.message.t = "object" /\ sres.message.content.t = "string"
    /\ (cpc = "done" /\ ~cresult.raised) =>
           cresult.value.t = "object" /\ cresult.value.content.t = "string"

\* C6: GET /api/health answers ok with the provider POST /api/chat routes to
\* under the same keys, and makes no upstream call.
C6_HealthMatchesChat ==
    hres.ok =>
        /\ hres.provider \in {"google", "openai", "none"}
        /\ spc = "idle" => UpstreamCalls = 0
        /\ ArrayRequest =>
             /\ hres.provider = sroute
             /\ Len(geminiCalls) > 0 => hres.provider = "google"
             /\ Len(openaiCalls) > 0 => hres.provider = "openai"
             /\ (spc = "responded" /\ sres.status = 200) => sres.provider = hres.provider

\* only the OpenAI key set: health says "openai" and chat called OpenAI
C6_Witness ==
    /\ hres.ok /\ hres.provider = "openai"
    /\ GOOGLE_API_KEY = "" /\ OPENAI_API_KEY # ""
    /\ spc = "awaitOpenAI"
    /\ Len(openaiCalls) = 1

\* every element is a ChatMessage: an object with a text content
IsChatMessageSeq(m) ==
    \A i \in 1..Len(m) : m[i].t = "object" /\ m[i].content.t = "string"

\* C7: for a ChatMessage sequence, what the selected adapter sends has the
\* length and order of `messages`: Gemini gets message i as role "model" for
\* "assistant" and "user" otherwise, with the one part { text: content };
\* OpenAI gets the messages unchanged.
C7_TranslationPreservesMessages ==
    (ArrayRequest /\ IsChatMessageSeq(sbody.messages.v)) =>
        LET m == sbody.messages.v
        IN  /\ Classified = "google" => Len(geminiCalls) = 1
            /\ Classified = "openai" => Len(openaiCalls) = 1
            /\ \A k \in 1..Len(geminiCalls) :
                 /\ Len(geminiCalls[k].contents) = Len(m)
                 /\ \A i \in 1..Len(m) :
                      /\ geminiCalls[k].contents[i].role =
                             (IF m[i].role = "assistant" THEN "model" ELSE "user")
                      /\ geminiCalls[k].contents[i].parts = << [text |-> m[i].content.s] >>
            /\ \A k \in 1..Len(openaiCalls) : openaiCalls[k].messages = m

\* a system message followed by an assistant message went to Gemini
C7_Witness ==
    /\ Len(geminiCalls) = 1
    /\ sbody.messages.v = << SYSTEM_MESSAGE, Msg("assistant", Str("ok")) >>
    /\ geminiCalls[1].contents[1].role = "user"
    /\ geminiCalls[1].contents[2].role = "model"

\* the text parts of a candidate, concatenated in order
RECURSIVE ConcatTexts(_)
ConcatTexts(parts) ==
    IF parts = << >> THEN ""
    ELSE LET n == Len(parts)
             last == IF parts[n].text.t = "string" THEN parts[n].text.s ELSE ""
         IN  ConcatTexts(SubSeq(parts, 1, n - 1)) \o last
\* no candidate, or no parts in the first candidate
NoCandidateOrParts(data) ==
    \/ data.t = "null"
    \/ data.candidates.t = "undefined"
    \/ Len(data.candidates.v) = 0
    \/ data.candidates.v[1].content = "undefined"
    \/ data.candidates.v[1].parts.t = "undefined"
    \/ Len(data.candidates.v[1].parts.v) = 0
GoogleReplied == spc = "responded" /\ sres.status = 200 /\ sres.provider = "google"

\* C8 as stated: the content is the concatenation of the first candidate's text
\* parts, and "(no content)" when no candidate or no parts exist.
C8_AsStated ==
    GoogleReplied =>
        sres.message =
            Msg("assistant",
                Str(IF NoCandidateOrParts(gres.data) THEN "(no content)"
                    ELSE ConcatTexts(gres.data.candidates.v[1].parts.v)))

\* C8 amended: "(no content)" also when the concatenation is the empty string.
C8_GeminiReplyText ==
    GoogleReplied =>
        sres.message =
            Msg("assistant",
                Str(IF NoCandidateOrParts(gres.data) THEN "(no content)"
                    ELSE IF ConcatTexts(gres.data.candidates.v[1].parts.v) = "" THEN "(no content)"
                    ELSE ConcatTexts(gres.data.candidates.v[1].parts.v)))

\* parts "foo","bar" in the first of two candidates give "foobar"
C8_Witness ==
    /\ GoogleReplied
    /\ Len(gres.data.candidates.v) = 2
    /\ gres.data.candidates.v[1].parts.v = << [text |-> Str("foo")], [text |-> Str("bar")] >>
    /\ gres.data.candidates.v[2].parts.v = << [text |-> Str("bar")] >>
    /\ sres.message.content = Str("foobar")

\* C9: callChatAPI never raises; a rejected fetch, a non-success status or an
\* unparsable body gives { role: "assistant", content: "Error: " + detail },
\* and a success gives the `message` of the response body.
C9_CallChatAPINeverRaises ==
    cpc = "done" =>
        /\ ~cresult.raised
        /\ Failed(cfetch) =>
             /\ cresult.value.t = "object"
             /\ cresult.value.role = "assistant"
             /\ cresult.value.content.t = "string"
             /\ StartsWith(cresult.value.content.s, "Error: ")
             /\ Len(cresult.value.content.s) > Len("Error: ")
        /\ (cfetch.net = "response" /\ (cfetch.status < 200 \/ cfetch.status > 299)) =>
             cresult.value.content.s = "Error: HTTP " \o ToString(cfetch.status)
        /\ (~Failed(cfetch) /\ cfetch.json = "null") =>
             /\ cresult.value.role = "assistant"
             /\ StartsWith(cresult.value.content.s, "Error: ")
        /\ (~Failed(cfetch) /\ cfetch.json = "ok") => cresult.value = cfetch.data.message

\* the server answered 500 and the UI got the inline error message
C9_Witness ==
    /\ cpc = "done"
    /\ cfetch.net = "response" /\ cfetch.status = 500
    /\ cresult.value = Msg("assistant", Str("Error: HTTP 500"))

\* C10 as stated: a request causes at most one upstream call, to the provider
\* the keys select, and exactly one when `messages` is an array and a key is
\* set; a failed call is not followed by another.
C10_AsStated ==
    /\ UpstreamCalls <= 1
    /\ (ArrayRequest /\ Classified # "none") => UpstreamCalls = 1
    /\ Len(geminiCalls) > 0 => Classified = "google"
    /\ Len(openaiCalls) > 0 => Classified = "openai"

\* C10 amended: exactly one unless the Google branch was taken and `messages`
\* holds a null element, where the translation throws before the fetch and no
\* call is made.
C10_OneUpstreamCall ==
    /\ UpstreamCalls <= 1
    /\ (ArrayRequest /\ Classified # "none" /\ ~TranslationThrew) => UpstreamCalls = 1
    /\ TranslationThrew => UpstreamCalls = 0
    /\ Len(geminiCalls) > 0 => Classified = "google"
    /\ Len(openaiCalls) > 0 => Classified = "openai"
    /\ (spc = "responded" /\ (Failed(gres) \/ Failed(ores))) => UpstreamCalls = 1

\* a two-message request whose Gemini call failed, with the OpenAI key set
C10_Witness ==
    /\ spc = "responded"
    /\ Failed(gres)
    /\ OPENAI_API_KEY # ""
    /\ Len(sbody.messages.v) = 2
    /\ Len(geminiCalls) = 1 /\ Len(openaiCalls) = 0

\* the entries of the conversation list a send put there
EntriesOf(id, part) == { i \in 1..Len(entryOf) : entryOf[i] = [id |-> id, part |-> part] }
InFlightIds == { c.id : c \in inflight }
\* the list starts with the system message, and every accepted send has its
\* one user message, no reply while its call is in flight and one reply, after
\* its user message, once the call settled
ConversationState ==
    /\ Len(appMessages) >= 1
    /\ appMessages[1] = SYSTEM_MESSAGE
    /\ Len(entryOf) = Len(appMessages)
    /\ \A i \in 2..Len(appMessages) :
         /\ entryOf[i].id \in 1..nsends
         /\ entryOf[i].part = "user" => appMessages[i].role = "user"
         /\ entryOf[i].part = "reply" => appMessages[i].role # "user"
    /\ \A id \in 1..nsends :
         /\ Cardinality(EntriesOf(id, "user")) = 1
         /\ Cardinality(EntriesOf(id, "reply")) = (IF id \in InFlightIds THEN 0 ELSE 1)
         /\ \A i \in EntriesOf(id, "user"), j \in EntriesOf(id, "reply") : i < j
    /\ inflight = { } =>
         Cardinality({ i \in 1..Len(entryOf) : entryOf[i].part = "reply" })
             = Cardinality({ i \in 1..Len(entryOf) : entryOf[i].part = "user" })
\* a step only appends to the list
AppendOnly ==
    /\ Len(appMessages') >= Len(appMessages)
    /\ SubSeq(appMessages', 1, Len(appMessages)) = appMessages

\* C11: under any interleaving of chat sends, form submissions and reply
\* arrivals the conversation list is append-only and starts with the system
\* message; each accepted send appends its user message before its own reply,
\* exactly one reply is appended for it once its call settled, and with no
\* call in flight there are as many replies as user messages.
C11_ConversationAppendOnly == [][AppendOnly]_vars /\ []ConversationState

\* the same, as long as no render has thrown
ConversationWhileMounted == [][AppendOnly]_vars /\ [](mounted => ConversationState)

\* two sends overlapped and the second one's reply arrived first
OverlappingSendsSettled ==
    /\ mounted /\ nsends = 2 /\ inflight = { }
    /\ entryOf = << [id |-> 0, part |-> "system"], [id |-> 1, part |-> "user"],
                    [id |-> 2, part |-> "user"], [id |-> 2, part |-> "reply"],
                    [id |-> 1, part |-> "reply"] >>

====
